---- MODULE Spec2Model ----
(***************************************************************************)
(* The scheduled-post lifecycle engine of mnee-backend:                    *)
(* SchedulerService (src/scheduler_service.py) over the scheduled_posts,   *)
(* payments and linkedin_connections tables, with the periodic sweep       *)
(* check_scheduled_posts (src/agent.py).                                   *)
(*                                                                         *)
(* Time is counted in whole minutes (UTC).  Rows of scheduled_posts keep   *)
(* the column names of the source.  Strings that the code inspects         *)
(* character by character (e-mail addresses) are sequences of one          *)
(* character strings.                                                      *)
(***************************************************************************)
EXTENDS Integers, Sequences, FiniteSets, TLC

(***************************************************************************)
(* Bounds of the model.                                                    *)
(***************************************************************************)
MaxPosts == 2
OneRecord == 1
MaxTime == 2
CronStart == 52
CronHorizon == 64

(***************************************************************************)
(* Input domains.                                                          *)
(***************************************************************************)
Users == {"u1", "u2"}
Owners == {"u1"}

ShortTopic == "hello"
LongText == "LONG-FINISHED-POST"
ContentLength(c) == IF c = LongText THEN 201 ELSE 5
TopicThreshold == 200

EveryMinute == "* * * * *"
EveryTwo == "*/2 * * * *"
EverySeven == "*/7 * * * *"
BadCron == "every now and then"
NoCron == ""

NoTime == -1
InvalidIso == -2

NoToken == 0
TokenBase == 100
BogusToken == 999

NoImage == ""
HttpImage == "http://img"
GENERATE_ON_EXECUTION == "__GENERATE_ON_EXECUTION__"

NoEmail == <<>>
EmailAUpper == <<"A", " ">>
EmailB == <<"b">>
TeamAB == << <<"a">>, <<" ", "B">> >>

ReviewerEmails == {NoEmail, EmailAUpper, EmailB}
\* an address that is on no team, and the addresses typed into the verify form
EmailOutsider == <<"c">>
VerifyEmails == {EmailAUpper, EmailB, EmailOutsider}

PaymentServices == {"linkedin_post"}

NoError == ""
ErrPayment == "Payment required for linkedin_post. Please pay before scheduling."
ErrGeneration == "Post content generation failed"
ErrPublish == "LinkedIn post failed"
ErrException == "exception"

(***************************************************************************)
(* str.lower() and str.strip() on the e-mail alphabet.                     *)
(***************************************************************************)
LowerChar(ch) == CASE ch = "A" -> "a" [] ch = "B" -> "b" [] OTHER -> ch

Lower(s) == [i \in 1..Len(s) |-> LowerChar(s[i])]

RECURSIVE LStrip(_)
LStrip(s) == IF Len(s) > 0 /\ s[1] = " " THEN LStrip(SubSeq(s, 2, Len(s))) ELSE s

RECURSIVE RStrip(_)
RStrip(s) == IF Len(s) > 0 /\ s[Len(s)] = " " THEN RStrip(SubSeq(s, 1, Len(s) - 1)) ELSE s

Strip(s) == RStrip(LStrip(s))

LowerStrip(e) == Strip(Lower(e))

LowerStripAll(list) == [i \in 1..Len(list) |-> LowerStrip(list[i])]

InList(x, list) == \E i \in 1..Len(list) : list[i] = x

(***************************************************************************)
(* Recurrence calculator: croniter(cron, now).get_next().                  *)
(***************************************************************************)
\* the step of the minute field ("*" is every minute); 0 for a text croniter rejects
CronPeriod(cron) ==
    CASE cron = EveryMinute -> 1 [] cron = EveryTwo -> 2 [] cron = EverySeven -> 7 [] OTHER -> 0

MinutesPerHour == 60

\* minute m is an occurrence: its minute of the hour is a multiple of the step
CronMatches(cron, m) == CronPeriod(cron) # 0 /\ (m % MinutesPerHour) % CronPeriod(cron) = 0

\* the occurrence search starting at t itself
get_next_utc_inclusive(cron, t) ==
    IF CronPeriod(cron) = 0
    THEN NoTime
    ELSE LET minute == t % MinutesPerHour
             candidate == ((minute + CronPeriod(cron) - 1) \div CronPeriod(cron)) * CronPeriod(cron)
         IN  IF candidate < MinutesPerHour
             THEN t - minute + candidate
             ELSE t - minute + MinutesPerHour

\* any text taken for a rule: the next minute
get_next_utc_unchecked(cron, t) == t + 1

\* the first minute after t whose minute of the hour is a multiple of the step:
\* in this hour, else minute 0 of the next hour
get_next_utc(cron, t) ==
    IF CronPeriod(cron) = 0
    THEN NoTime
    ELSE LET minute == t % MinutesPerHour
             candidate == ((minute \div CronPeriod(cron)) + 1) * CronPeriod(cron)
         IN  IF candidate < MinutesPerHour
             THEN t - minute + candidate
             ELSE t - minute + MinutesPerHour

(***************************************************************************)
(* datetime.fromisoformat(scheduled_at): the caller's text either parses   *)
(* to an instant or raises.                                                *)
(***************************************************************************)
ParseIso(scheduled_at) == IF scheduled_at = InvalidIso THEN NoTime ELSE scheduled_at

VARIABLES
    store,        \* table scheduled_posts: id -> row
    nextId,       \* ids handed out so far + 1 (the store's uuid generator)
    now,          \* wall clock, minutes
    payments,     \* table payments: user -> services with a verified payment
    connections,  \* table linkedin_connections: user -> "none" | "ok"
    pc,           \* position of the periodic sweep
    queue,        \* active_schedules still to be processed by the sweep
    cur,          \* the row the sweep is processing (its copy from the query)
    sweepDue,     \* <<id, scheduled_at>> of the rows the running sweep selected
    publishedOk,  \* ids with a successful Publisher call behind them
    missing,      \* columns the deployed table scheduled_posts does not have
    frontendUrl   \* whether the environment variable FRONTEND_URL is set

vars == <<store, nextId, now, payments, connections, pc, queue, cur,
          sweepDue, publishedOk, missing, frontendUrl>>

sweepVars == <<pc, queue, cur, sweepDue, publishedOk>>
envVars == <<now, payments, connections, missing, frontendUrl>>

Ids == 1..MaxPosts
Tok(i) == TokenBase + i
TokenInputs == {Tok(i) : i \in Ids} \cup Ids \cup {BogusToken}

NoRow == [id |-> 0]

Init ==
    /\ store = <<>>
    /\ nextId = 1
    /\ now = 0
    /\ payments = [u \in Owners |-> {}]
    /\ connections = [u \in Owners |-> "none"]
    /\ pc = "idle"
    /\ queue = <<>>
    /\ cur = NoRow
    /\ sweepDue = {}
    /\ publishedOk = {}
    /\ missing = {}
    /\ frontendUrl = TRUE

(***************************************************************************)
(* Store primitives (supabase table("scheduled_posts")) on a table db.     *)
(***************************************************************************)
\* the row with the columns named in data rewritten
Patch(row, data) == [f \in DOMAIN row |-> IF f \in DOMAIN data THEN data[f] ELSE row[f]]

\* .update(data).eq("id", id)
UpdateById(db, id, data) ==
    [i \in DOMAIN db |-> IF i = id THEN Patch(db[i], data) ELSE db[i]]

\* .update(data).eq("id", id).eq("user_id", user)
UpdateOwned(db, id, user, data) ==
    [i \in DOMAIN db |-> IF i = id /\ db[i].user_id = user THEN Patch(db[i], data) ELSE db[i]]

\* the lookup without its owner filter
SelectOwnedAnyUser(db, id, user) == {i \in DOMAIN db : i = id}

\* .select("*").eq("id", id).eq("user_id", user)
SelectOwned(db, id, user) == {i \in DOMAIN db : i = id /\ db[i].user_id = user}

\* .select("*").eq("review_token", token)
SelectByToken(db, token) == {i \in DOMAIN db : db[i].review_token = token}

\* .select("*").eq("id", token)
SelectById(db, token) == {i \in DOMAIN db : i = token}

\* .insert(row): the store assigns the id
Insert(db, id, row) == [i \in DOMAIN db \cup {id} |-> IF i = id THEN row ELSE db[i]]

\* .delete().eq("id", id).eq("user_id", user)
DeleteOwned(db, id, user) == [i \in DOMAIN db \ SelectOwned(db, id, user) |-> db[i]]

Ok(message) == [error |-> NoError, message |-> message]
Err(error) == [error |-> error, message |-> ""]

(***************************************************************************)
(* SchedulerService.create_scheduled_post.  Each handler is an operator    *)
(* from the table (and clock) to the new table and the dict it returns;    *)
(* the action below applies it.                                            *)
(***************************************************************************)
\* scheduled_at given -> parsed instant; else the rule's next occurrence
ResolveNextPostAt(t, schedule, scheduled_at) ==
    IF scheduled_at # NoTime
    THEN ParseIso(scheduled_at)
    ELSE IF schedule # NoCron THEN get_next_utc(schedule, t) ELSE NoTime

ResolveError(schedule, scheduled_at) ==
    IF scheduled_at # NoTime
    THEN "Invalid scheduled_at format"
    ELSE IF schedule # NoCron
         THEN "Invalid cron expression format"
         ELSE "Either schedule (cron) or scheduled_at (ISO datetime) is required"

\* the duplicate query run for one-time requests too
ExistingDuplicatesAnyKind(db, user_id, content, schedule) ==
    {i \in DOMAIN db : /\ db[i].user_id = user_id
                       /\ db[i].content = content
                       /\ db[i].cron_expression = schedule
                       /\ db[i].status = "pending"}

\* the duplicate query filtering on a status no record ever has
ExistingDuplicatesActiveStatus(db, user_id, content, schedule) ==
    IF schedule # NoCron
    THEN {i \in DOMAIN db : /\ db[i].user_id = user_id
                            /\ db[i].content = content
                            /\ db[i].cron_expression = schedule
                            /\ db[i].status = "active"}
    ELSE {}

\* the duplicate query: same user_id, content, cron_expression and status pending
ExistingDuplicates(db, user_id, content, schedule) ==
    IF schedule # NoCron
    THEN {i \in DOMAIN db : /\ db[i].user_id = user_id
                            /\ db[i].content = content
                            /\ db[i].cron_expression = schedule
                            /\ db[i].status = "pending"}
    ELSE {}

ImageColumn(include_image, image_url) ==
    IF image_url # NoImage THEN image_url
    ELSE IF include_image THEN GENERATE_ON_EXECUTION ELSE NoImage

NewRow(nid, user_id, content, schedule, next_post_at, include_image, image_url, require_approval, team_emails) ==
    [user_id |-> user_id,
     content |-> content,
     cron_expression |-> schedule,
     scheduled_at |-> next_post_at,
     status |-> IF require_approval THEN "pending_approval" ELSE "pending",
     review_token |-> IF require_approval THEN Tok(nid) ELSE NoToken,
     team_emails |-> IF require_approval THEN team_emails ELSE <<>>,
     approved_emails |-> <<>>,
     image_url |-> ImageColumn(include_image, image_url),
     error_message |-> NoError]

\* the optional columns the dict scheduled_post carries
OptionalColumns == {"review_token", "team_emails"}
RowColumns(require_approval, team_emails) ==
    (IF require_approval THEN {"review_token"} ELSE {})
        \cup (IF require_approval /\ team_emails # <<>> THEN {"team_emails"} ELSE {})

\* scheduled_post_clean without its review_token: the status is kept
CleanRowKeepsStatus(row, removed) ==
    [row EXCEPT !.review_token = IF "review_token" \in removed THEN NoToken ELSE @,
                !.team_emails = IF "team_emails" \in removed THEN <<>> ELSE @]

\* scheduled_post_clean: the columns named by the insert error are popped, and
\* pending_approval becomes pending when the review_token went
CleanRow(row, removed) ==
    [row EXCEPT !.review_token = IF "review_token" \in removed THEN NoToken ELSE @,
                !.team_emails = IF "team_emails" \in removed THEN <<>> ELSE @,
                !.status = IF "review_token" \in removed /\ @ = "pending_approval"
                           THEN "pending" ELSE @]

\* insert, and on an error that names columns a second insert without them;
\* the error names some of the columns the table does not have
InsertOutcomes(db, nid, row, columns) ==
    IF columns \cap missing = {}
    THEN {[db |-> Insert(db, nid, row), nid |-> nid + 1, schedule_id |-> nid,
           res |-> Ok("Scheduled post created successfully")]}
    ELSE {IF (columns \ named) \cap missing = {}
          THEN [db |-> Insert(db, nid, CleanRow(row, named)), nid |-> nid + 1,
                schedule_id |-> nid, res |-> Ok("Scheduled post created successfully")]
          ELSE [db |-> db, nid |-> nid, schedule_id |-> 0,
                res |-> Err("Failed to create scheduled post")]
             : named \in (SUBSET (columns \cap missing)) \ {{}}}

\* the response built after the insert: the review link needs FRONTEND_URL,
\* and the ValueError raised without it becomes the error the call returns
ReviewLinkOutcome(out, require_approval) ==
    IF out.res.error = NoError /\ require_approval /\ ~frontendUrl
    THEN [out EXCEPT !.schedule_id = 0, !.res = Err("Failed to create scheduled post")]
    ELSE out

\* the outcomes of one call: existing.data[0] is any of the matching rows
create_scheduled_post(db, nid, t, user_id, topic, schedule, include_image, custom_text, image_url, scheduled_at, require_approval, team_emails) ==
    LET next_post_at == ResolveNextPostAt(t, schedule, scheduled_at)
        content == IF custom_text = "" THEN topic ELSE custom_text
        existing == ExistingDuplicates(db, user_id, content, schedule)
    IN  IF next_post_at = NoTime
        THEN {[db |-> db, nid |-> nid, schedule_id |-> 0,
               res |-> Err(ResolveError(schedule, scheduled_at))]}
        ELSE IF existing # {}
        THEN {[db |-> db, nid |-> nid, schedule_id |-> found,
               res |-> Ok("Schedule already exists")] : found \in existing}
        ELSE {ReviewLinkOutcome(out, require_approval) :
                 out \in InsertOutcomes(db, nid,
                            NewRow(nid, user_id, content, schedule, next_post_at,
                                   include_image, image_url, require_approval, team_emails),
                            RowColumns(require_approval, team_emails))}

(***************************************************************************)
(* Owner operations: activate, deactivate, delete, update.                 *)
(***************************************************************************)
\* activate that also starts a new review cycle
activate_schedule_new_cycle(db, t, user_id, schedule_id) ==
    IF SelectOwned(db, schedule_id, user_id) = {}
    THEN [db |-> db, res |-> Err("Schedule not found")]
    ELSE IF db[schedule_id].cron_expression = NoCron
            \/ get_next_utc(db[schedule_id].cron_expression, t) = NoTime
    THEN [db |-> db, res |-> Err("Invalid cron expression")]
    ELSE [db |-> UpdateOwned(db, schedule_id, user_id,
                    [status |-> "pending",
                     scheduled_at |-> get_next_utc(db[schedule_id].cron_expression, t),
                     approved_emails |-> <<>>]),
          res |-> Ok("Schedule activated successfully")]

activate_schedule(db, t, user_id, schedule_id) ==
    IF SelectOwned(db, schedule_id, user_id) = {}
    THEN [db |-> db, res |-> Err("Schedule not found")]
    ELSE IF db[schedule_id].cron_expression = NoCron
            \/ get_next_utc(db[schedule_id].cron_expression, t) = NoTime
    THEN [db |-> db, res |-> Err("Invalid cron expression")]
    ELSE [db |-> UpdateOwned(db, schedule_id, user_id,
                    [status |-> "pending",
                     scheduled_at |-> get_next_utc(db[schedule_id].cron_expression, t)]),
          res |-> Ok("Schedule activated successfully")]

\* deactivate that matches only rows not yet cancelled
deactivate_schedule_once(db, user_id, schedule_id) ==
    IF SelectOwned(db, schedule_id, user_id) = {} \/ db[schedule_id].status = "cancelled"
    THEN [db |-> db, res |-> Err("Schedule not found")]
    ELSE [db |-> UpdateOwned(db, schedule_id, user_id, [status |-> "cancelled"]),
          res |-> Ok("Schedule deactivated successfully")]

deactivate_schedule(db, user_id, schedule_id) ==
    [db |-> UpdateOwned(db, schedule_id, user_id, [status |-> "cancelled"]),
     res |-> IF SelectOwned(db, schedule_id, user_id) = {}
             THEN Err("Schedule not found")
             ELSE Ok("Schedule deactivated successfully")]

delete_schedule(db, user_id, schedule_id) ==
    [db |-> DeleteOwned(db, schedule_id, user_id),
     res |-> IF SelectOwned(db, schedule_id, user_id) = {}
             THEN Err("Schedule not found")
             ELSE Ok("Schedule deleted successfully")]

\* update_data that also puts the edited schedule back to pending
UpdateDataRearms(t, content, schedule, scheduled_at, include_image, image_url) ==
    LET contentPart == IF content # "" THEN [content |-> content] ELSE <<>>
        timePart == IF scheduled_at # NoTime
                    THEN [scheduled_at |-> ParseIso(scheduled_at), status |-> "pending"]
                    ELSE IF schedule # NoCron
                         THEN [cron_expression |-> schedule,
                               scheduled_at |-> get_next_utc(schedule, t),
                               status |-> "pending"]
                         ELSE <<>>
        imagePart == IF include_image = "unset" THEN <<>>
                     ELSE IF include_image = "yes" /\ image_url # NoImage
                          THEN [image_url |-> image_url]
                          ELSE IF include_image = "yes"
                               THEN [image_url |-> GENERATE_ON_EXECUTION]
                               ELSE [image_url |-> NoImage]
    IN  contentPart @@ timePart @@ imagePart

\* the columns update_schedule rewrites, from the arguments it was given
UpdateData(t, content, schedule, scheduled_at, include_image, image_url) ==
    LET contentPart == IF content # "" THEN [content |-> content] ELSE <<>>
        timePart == IF scheduled_at # NoTime
                    THEN [scheduled_at |-> ParseIso(scheduled_at)]
                    ELSE IF schedule # NoCron
                         THEN [cron_expression |-> schedule,
                               scheduled_at |-> get_next_utc(schedule, t)]
                         ELSE <<>>
        imagePart == IF include_image = "unset" THEN <<>>
                     ELSE IF include_image = "yes" /\ image_url # NoImage
                          THEN [image_url |-> image_url]
                          ELSE IF include_image = "yes"
                               THEN [image_url |-> GENERATE_ON_EXECUTION]
                               ELSE [image_url |-> NoImage]
    IN  contentPart @@ timePart @@ imagePart

update_schedule(db, t, user_id, schedule_id, content, schedule, scheduled_at, include_image, image_url) ==
    LET update_data == UpdateData(t, content, schedule, scheduled_at, include_image, image_url)
    IN  IF SelectOwned(db, schedule_id, user_id) = {}
        THEN [db |-> db, res |-> Err("Schedule not found")]
        ELSE IF scheduled_at # NoTime /\ ParseIso(scheduled_at) = NoTime
        THEN [db |-> db, res |-> Err("Invalid scheduled_at format")]
        ELSE IF scheduled_at = NoTime /\ schedule # NoCron /\ get_next_utc(schedule, t) = NoTime
        THEN [db |-> db, res |-> Err("Invalid cron expression format")]
        ELSE IF DOMAIN update_data = {}
        THEN [db |-> db, res |-> Err("No fields to update")]
        ELSE [db |-> UpdateOwned(db, schedule_id, user_id, update_data),
              res |-> Ok("Schedule updated successfully")]

(***************************************************************************)
(* SchedulerService.review_schedule: the public review surface.            *)
(***************************************************************************)
ReviewableStatuses == {"pending_approval", "pending"}

\* the rows the token resolves to: by review_token, else by id
ReviewLookup(db, review_token) ==
    IF SelectByToken(db, review_token) # {}
    THEN SelectByToken(db, review_token)
    ELSE SelectById(db, review_token)

\* the membership test on the e-mail as typed, not on its lower().strip() form
ApprovedAfterRawCompare(reviewer_email, team_emails, approved_emails) ==
    IF reviewer_email # NoEmail /\ team_emails # <<>>
       /\ ~InList(reviewer_email, approved_emails)
    THEN Append(approved_emails, reviewer_email)
    ELSE approved_emails

\* the list rebuilt from a copy read before the other reviewers' writes
ApprovedAfterStaleRead(reviewer_email, team_emails, approved_emails) ==
    IF reviewer_email # NoEmail /\ team_emails # <<>>
    THEN <<reviewer_email>>
    ELSE <<>>

\* reviewer_email appended unless its lower().strip() form is already listed
ApprovedAfter(reviewer_email, team_emails, approved_emails) ==
    IF reviewer_email # NoEmail /\ team_emails # <<>>
       /\ ~InList(LowerStrip(reviewer_email), LowerStripAll(approved_emails))
    THEN Append(approved_emails, reviewer_email)
    ELSE approved_emails

AllApproved(team_emails, approved_emails) ==
    /\ team_emails # <<>>
    /\ \A i \in 1..Len(team_emails) :
          InList(LowerStripAll(team_emails)[i], LowerStripAll(approved_emails))

\* the status kept at pending_approval until all_approved
ApproveStatusKeepsWaiting(all_approved) == IF ~all_approved THEN "pending_approval" ELSE "pending"

\* line 649: "pending" if not all_approved else "pending"
ApproveStatus(all_approved) == IF ~all_approved THEN "pending" ELSE "pending"

\* the dict returned to an approving reviewer
ApproveResponse(schedule_id, team_emails, approved_emails) ==
    IF AllApproved(team_emails, approved_emails)
    THEN [error |-> NoError, schedule_id |-> schedule_id,
          message |-> "Post approved by all team members. Will be posted at scheduled time."]
    ELSE [error |-> NoError, schedule_id |-> schedule_id,
          message |-> IF team_emails # <<>> THEN "Post approved (n/m approvals)"
                      ELSE "Post approved and scheduled",
          approvals_count |-> Len(approved_emails),
          total_required |-> IF team_emails # <<>> THEN Len(team_emails) ELSE 1]

review_schedule(db, review_token, action, reviewer_email) ==
    LET found == ReviewLookup(db, review_token)
        schedule_id == CHOOSE i \in found : TRUE
        schedule == db[schedule_id]
        approved_emails == ApprovedAfter(reviewer_email, schedule.team_emails,
                                         schedule.approved_emails)
    IN  IF found = {}
        THEN [db |-> db, res |-> Err("Review token not found or already processed")]
        ELSE IF schedule.status \notin ReviewableStatuses
        THEN [db |-> db, res |-> Err("Schedule found but status is not reviewable")]
        ELSE IF action = "approve"
        THEN [db |-> UpdateById(db, schedule_id,
                        [status |-> ApproveStatus(AllApproved(schedule.team_emails, approved_emails)),
                         approved_emails |-> approved_emails]),
              res |-> ApproveResponse(schedule_id, schedule.team_emails, approved_emails)]
        ELSE IF action = "reject"
        THEN [db |-> UpdateById(db, schedule_id, [status |-> "rejected"]),
              res |-> [error |-> NoError, schedule_id |-> schedule_id, message |-> "Post rejected"]]
        ELSE [db |-> db, res |-> Err("Invalid action. Use 'approve' or 'reject'")]

\* SchedulerService.verify_review_email: the row is looked up by review_token,
\* else by id; no team_emails -> verified; else the lower().strip() form of the
\* e-mail must be in the lower().strip() forms of team_emails
verify_review_email(db, review_token, email) ==
    LET found == ReviewLookup(db, review_token)
        schedule_id == CHOOSE i \in found : TRUE
        team_emails == db[schedule_id].team_emails
    IN  IF found = {}
        THEN [verified |-> FALSE, error |-> "Schedule not found"]
        ELSE IF team_emails = <<>>
        THEN [verified |-> TRUE, schedule_id |-> schedule_id]
        ELSE IF InList(LowerStrip(email), LowerStripAll(team_emails))
        THEN [verified |-> TRUE, schedule_id |-> schedule_id]
        ELSE [verified |-> FALSE, error |-> "Email is not authorized to review this post"]

\* the e-mail check that lets every supplied e-mail through
EmailRefusedOnlyWhenAbsent(email, team_emails) == email = NoEmail

\* "not email", or email.lower().strip() not in the lower().strip() forms
EmailRefused(email, team_emails) ==
    \/ email = NoEmail
    \/ ~InList(LowerStrip(email), LowerStripAll(team_emails))

\* SchedulerService.get_schedule_for_review: the dict handed to the public
\* review page; the row is looked up by review_token, else by id
get_schedule_for_review(db, review_token, email) ==
    LET found == ReviewLookup(db, review_token)
        schedule_id == CHOOSE i \in found : TRUE
        schedule == db[schedule_id]
        requires_email_verification == schedule.team_emails # <<>>
    IN  IF found = {}
        THEN [error |-> "Schedule not found"]
        ELSE IF requires_email_verification /\ EmailRefused(email, schedule.team_emails)
        THEN IF email = NoEmail
             THEN [schedule_id |-> schedule_id,
                   requires_email_verification |-> TRUE,
                   team_emails |-> schedule.team_emails,
                   error |-> "Email verification required"]
             ELSE [error |-> "Email is not authorized to review this post",
                   requires_email_verification |-> TRUE,
                   team_emails |-> schedule.team_emails]
        ELSE IF schedule.status \notin ReviewableStatuses
        THEN [schedule_id |-> schedule_id,
              topic |-> "",
              content |-> schedule.content,
              image_url |-> schedule.image_url,
              scheduled_at |-> schedule.scheduled_at,
              status |-> schedule.status,
              error |-> "Schedule status is not reviewable"]
        ELSE [schedule_id |-> schedule_id,
              topic |-> "",
              content |-> schedule.content,
              image_url |-> schedule.image_url,
              scheduled_at |-> schedule.scheduled_at,
              status |-> schedule.status,
              team_emails |-> schedule.team_emails,
              requires_email_verification |-> requires_email_verification,
              error |-> NoError]

\* str(e) of the AttributeError raised by scheduler_service.get_approval_status:
\* class SchedulerService defines no such method
ErrNoAttribute == "'SchedulerService' object has no attribute 'get_approval_status'"

\* handle_get_approval_status: the authenticated owner asks for the approval
\* state of a schedule; the call of the service raises and the handler's
\* except turns the exception into the answer
handle_get_approval_status(db, user_id, schedule_id) ==
    IF user_id \notin Users
    THEN [error |-> "Authentication required"]
    ELSE [error |-> ErrNoAttribute]

(***************************************************************************)
(* Environment: the clock, the payment ledger, the LinkedIn OAuth flow.    *)
(***************************************************************************)
Tick ==
    /\ now < MaxTime
    /\ now' = now + 1
    /\ UNCHANGED <<store, nextId, payments, connections, missing, frontendUrl, sweepVars>>

\* PaymentService.record_payment: inserts a payments row with status "verified"
RecordPayment(user, service) ==
    /\ service \notin payments[user]
    /\ payments' = [payments EXCEPT ![user] = @ \cup {service}]
    /\ UNCHANGED <<store, nextId, now, connections, missing, frontendUrl, sweepVars>>

\* PaymentService.refund_payment: the user's row for the service goes from
\* "verified" to "refund_pending", so the payment checks no longer find it
refund_payment(user, service) ==
    /\ service \in payments[user]
    /\ payments' = [payments EXCEPT ![user] = @ \ {service}]
    /\ UNCHANGED <<store, nextId, now, connections, missing, frontendUrl, sweepVars>>

\* LinkedInService OAuth callback: inserts or updates the user's connection row
Connect(user) ==
    /\ connections[user] = "none"
    /\ connections' = [connections EXCEPT ![user] = "ok"]
    /\ UNCHANGED <<store, nextId, now, payments, missing, frontendUrl, sweepVars>>

(***************************************************************************)
(* SchedulerService.handle_scheduled_posts: the periodic sweep.  It is one *)
(* coroutine; the steps below are cut at its awaits on the AI and the      *)
(* Publisher collaborators, where the event loop runs other handlers.      *)
(***************************************************************************)
\* the due query without its status filter
DueQueryAnyStatus(db, t) == {i \in DOMAIN db : db[i].scheduled_at <= t}

\* the query without its time filter: every pending row is selected
DueQueryIgnoresTime(db, t) == {i \in DOMAIN db : db[i].status = "pending"}

\* the query that passes over every row that went through review
DueQueryUnreviewedOnly(db, t) ==
    {i \in DOMAIN db : /\ db[i].status = "pending"
                       /\ db[i].scheduled_at <= t
                       /\ db[i].review_token = NoToken}

\* the query that also retries failed rows
DueQueryRetriesFailed(db, t) ==
    {i \in DOMAIN db : db[i].status \in {"pending", "failed"} /\ db[i].scheduled_at <= t}

\* .eq("status", "pending").lte("scheduled_at", now_utc)
DueQuery(db, t) == {i \in DOMAIN db : db[i].status = "pending" /\ db[i].scheduled_at <= t}

Orderings(S) ==
    {order \in [1..Cardinality(S) -> S] :
        \A a, b \in 1..Cardinality(S) : a # b => order[a] # order[b]}

\* the dict the sweep keeps of a selected row
Snapshot(i) ==
    [id |-> i,
     user_id |-> store[i].user_id,
     content |-> store[i].content,
     image_url |-> store[i].image_url,
     cron_expression |-> store[i].cron_expression]

\* the branch taken when no payment service is configured: everybody has paid
CheckPaymentNoService(user_id) == TRUE

\* the payment check left for after the post: the pipeline goes ahead
CheckPaymentDeferred(user_id) == TRUE

\* SchedulerService._check_payment(user_id, "linkedin_post")
CheckPayment(user_id) ==
    payments[user_id] \cap {"linkedin_post", "linkedin_post_with_image"} # {}

HasConnection(user_id) == connections[user_id] = "ok"

NeedsGeneratedText(row) == ~(row.content # "" /\ ContentLength(row.content) > TopicThreshold)

NeedsImageGeneration(row) == row.image_url = GENERATE_ON_EXECUTION

HasSavedImage(row) == row.image_url = HttpImage

\* the loop moves on to the next selected row, or the sweep returns
NextRecord(rest) ==
    /\ queue' = rest
    /\ cur' = NoRow
    /\ pc' = IF rest = <<>> THEN "idle" ELSE "begin"
    /\ sweepDue' = IF rest = <<>> THEN {} ELSE sweepDue

\* the row is marked failed and the failure ends the sweep (no per-record try)
FailRecordAborts(row, err, rest) ==
    /\ store' = UpdateById(store, row.id, [status |-> "failed", error_message |-> err])
    /\ queue' = <<>>
    /\ cur' = NoRow
    /\ pc' = "idle"
    /\ sweepDue' = {}
    /\ UNCHANGED publishedOk

\* the failure is passed over and the topic itself is handed to the Publisher
FailRecordPostsTopic(row, err, rest) ==
    /\ pc' = "pub"
    /\ queue' = rest
    /\ cur' = [row |-> row, with_image |-> FALSE]
    /\ UNCHANGED <<store, publishedOk, sweepDue>>

\* the row is marked failed and the loop continues
FailRecord(row, err, rest) ==
    /\ store' = UpdateById(store, row.id, [status |-> "failed", error_message |-> err])
    /\ NextRecord(rest)
    /\ UNCHANGED publishedOk

\* post_with_image / post_text is called; the coroutine waits for the answer
CallPublisher(row, image, rest) ==
    /\ pc' = "pub"
    /\ queue' = rest
    /\ cur' = [row |-> row, with_image |-> image]
    /\ UNCHANGED <<store, publishedOk, sweepDue>>

\* the text is final: generate the image if asked to, else publish
AfterText(row, rest) ==
    IF NeedsImageGeneration(row)
    THEN /\ pc' = "img"
         /\ queue' = rest
         /\ cur' = [row |-> row, with_image |-> FALSE]
         /\ UNCHANGED <<store, publishedOk, sweepDue>>
    ELSE CallPublisher(row, HasSavedImage(row), rest)

SweepQuery ==
    /\ pc = "idle"
    /\ \E order \in Orderings(DueQuery(store, now)) :
          queue' = [k \in 1..Len(order) |-> Snapshot(order[k])]
    /\ pc' = IF DueQuery(store, now) = {} THEN "idle" ELSE "begin"
    /\ cur' = NoRow
    /\ sweepDue' = {<<i, store[i].scheduled_at>> : i \in DueQuery(store, now)}
    /\ UNCHANGED <<store, nextId, envVars, publishedOk>>

SweepBegin ==
    /\ pc = "begin"
    /\ UNCHANGED <<nextId, envVars>>
    /\ LET row == Head(queue)
           rest == Tail(queue)
       IN  IF ~CheckPayment(row.user_id)
           THEN FailRecord(row, ErrPayment, rest)
           ELSE IF ~HasConnection(row.user_id)
           THEN /\ NextRecord(rest)
                /\ UNCHANGED <<store, publishedOk>>
           ELSE IF NeedsGeneratedText(row)
           THEN /\ pc' = "ai"
                /\ queue' = rest
                /\ cur' = [row |-> row, with_image |-> FALSE]
                /\ UNCHANGED <<store, publishedOk, sweepDue>>
           ELSE AfterText(row, rest)

\* ai_service.generate_linkedin_post returns
SweepAI(outcome) ==
    /\ pc = "ai"
    /\ UNCHANGED <<nextId, envVars>>
    /\ IF outcome = "ok"
       THEN AfterText(cur.row, queue)
       ELSE FailRecord(cur.row, IF outcome = "error" THEN ErrGeneration ELSE ErrException, queue)

\* ai_service.generate_image returns a url, or None
SweepImage(outcome) ==
    /\ pc = "img"
    /\ UNCHANGED <<nextId, envVars>>
    /\ IF outcome = "raise"
       THEN FailRecord(cur.row, ErrException, queue)
       ELSE CallPublisher(cur.row, outcome = "url", queue)

\* the recurring row put back to pending with the run time it already had
FinalizeDataKeepsDue(cron_expr, t) ==
    IF cron_expr # NoCron /\ get_next_utc(cron_expr, t) # NoTime
    THEN [status |-> "pending"]
    ELSE [status |-> "posted"]

\* the columns written after a successful post
FinalizeData(cron_expr, t) ==
    IF cron_expr # NoCron /\ get_next_utc(cron_expr, t) # NoTime
    THEN [status |-> "pending", scheduled_at |-> get_next_utc(cron_expr, t)]
    ELSE [status |-> "posted"]

\* linkedin_service.post_text / post_with_image returns
SweepPublish(outcome) ==
    /\ pc = "pub"
    /\ UNCHANGED <<nextId, envVars>>
    /\ IF outcome = "ok"
       THEN /\ store' = UpdateById(store, cur.row.id, FinalizeData(cur.row.cron_expression, now))
            /\ publishedOk' = publishedOk \cup {cur.row.id}
            /\ NextRecord(queue)
       ELSE FailRecord(cur.row, IF outcome = "error" THEN ErrPublish ELSE ErrException, queue)

(***************************************************************************)
(* The operations as actions, over the inputs they are tried with.         *)
(***************************************************************************)
\* <<schedule, scheduled_at>> as callers give them: a rule, a time, both, neither
TimingInputs ==
    {<<EveryTwo, NoTime>>, <<NoCron, 0>>, <<NoCron, MaxTime>>, <<BadCron, 0>>,
     <<EveryTwo, 0>>, <<BadCron, NoTime>>, <<NoCron, InvalidIso>>, <<NoCron, NoTime>>}
PairTimingInputs == {<<EveryTwo, NoTime>>, <<NoCron, 0>>, <<NoCron, MaxTime>>}
\* <<require_approval, team_emails>>
ApprovalInputs == {<<FALSE, <<>>>>, <<TRUE, <<>>>>, <<TRUE, TeamAB>>}
PairApprovalInputs == {<<FALSE, <<>>>>, <<TRUE, <<>>>>}
CustomTextInputs == {"", LongText}
\* <<content, include_image, image_url>> of an update request
EditInputs ==
    {<<"", "unset", NoImage>>, <<ShortTopic, "unset", NoImage>>, <<"", "yes", NoImage>>,
     <<"", "no", NoImage>>}
\* update requests <<content, schedule, scheduled_at, include_image, image_url>>:
\* every timing alone, every edit alone, and an edit of everything at once
UpdateRequests ==
    {<<"", timing[1], timing[2], "unset", NoImage>> : timing \in TimingInputs}
        \cup {<<edit[1], NoCron, NoTime, edit[2], edit[3]>> : edit \in EditInputs}
        \cup {<<ShortTopic, EveryTwo, NoTime, "yes", NoImage>>}

CreateWith(limit, timings, images, texts, approvals) ==
    /\ nextId <= limit
    /\ \E user_id \in Owners, timing \in timings, include_image \in images,
         custom_text \in texts, approval \in approvals :
          \E out \in create_scheduled_post(store, nextId, now, user_id, ShortTopic, timing[1],
                         include_image, custom_text, NoImage, timing[2], approval[1], approval[2]) :
              /\ store' = out.db
              /\ nextId' = out.nid
              /\ UNCHANGED <<envVars, sweepVars>>

UpdateWith(requests) ==
    \E user_id \in Users, schedule_id \in Ids, req \in requests :
        /\ store' = update_schedule(store, now, user_id, schedule_id, req[1], req[2], req[3],
                                    req[4], req[5]).db
        /\ UNCHANGED <<nextId, envVars, sweepVars>>

ReviewWith(emails) ==
    \E review_token \in TokenInputs, action \in {"approve", "reject"}, reviewer_email \in emails :
        /\ store' = review_schedule(store, review_token, action, reviewer_email).db
        /\ UNCHANGED <<nextId, envVars, sweepVars>>

Activate ==
    \E user_id \in Users, schedule_id \in Ids :
        /\ store' = activate_schedule(store, now, user_id, schedule_id).db
        /\ UNCHANGED <<nextId, envVars, sweepVars>>

Deactivate ==
    \E user_id \in Users, schedule_id \in Ids :
        /\ store' = deactivate_schedule(store, user_id, schedule_id).db
        /\ UNCHANGED <<nextId, envVars, sweepVars>>

Delete ==
    \E user_id \in Users, schedule_id \in Ids :
        /\ store' = delete_schedule(store, user_id, schedule_id).db
        /\ UNCHANGED <<nextId, envVars, sweepVars>>

Pay == \E user_id \in Owners, service \in PaymentServices : RecordPayment(user_id, service)

Refund == \E user_id \in Owners, service \in PaymentServices : refund_payment(user_id, service)

ConnectLinkedIn == \E user_id \in Owners : Connect(user_id)

SweepAIReturns == \E outcome \in {"ok", "error", "raise"} : SweepAI(outcome)

SweepImageReturns == \E outcome \in {"url", "none", "raise"} : SweepImage(outcome)

SweepPublishReturns == \E outcome \in {"ok", "error", "raise"} : SweepPublish(outcome)

(***************************************************************************)
(* Spec: one schedule, every input.                                        *)
(***************************************************************************)
Create == CreateWith(OneRecord, TimingInputs, BOOLEAN, CustomTextInputs, ApprovalInputs)

Update == UpdateWith(UpdateRequests)

Review == ReviewWith(ReviewerEmails)

Next ==
    \/ Tick
    \/ Pay
    \/ Refund
    \/ ConnectLinkedIn
    \/ Create
    \/ Activate
    \/ Deactivate
    \/ Delete
    \/ Update
    \/ Review
    \/ SweepQuery
    \/ SweepBegin
    \/ SweepAIReturns
    \/ SweepImageReturns
    \/ SweepPublishReturns

Spec == Init /\ [][Next]_vars

(***************************************************************************)
(* SpecPair: several schedules of one paid and connected owner, with the   *)
(* inputs narrowed to rule or time, and approval without named reviewers.  *)
(***************************************************************************)
InitPair ==
    /\ store = <<>>
    /\ nextId = 1
    /\ now = 0
    /\ payments = [u \in Owners |-> {"linkedin_post"}]
    /\ connections = [u \in Owners |-> "ok"]
    /\ pc = "idle"
    /\ queue = <<>>
    /\ cur = NoRow
    /\ sweepDue = {}
    /\ publishedOk = {}
    /\ missing = {}
    /\ frontendUrl = TRUE

CreatePair == CreateWith(MaxPosts, PairTimingInputs, {FALSE}, {""}, PairApprovalInputs)

ReviewPair == ReviewWith({NoEmail})

NextPair ==
    \/ Tick
    \/ CreatePair
    \/ Activate
    \/ Deactivate
    \/ Delete
    \/ ReviewPair
    \/ SweepQuery
    \/ SweepBegin
    \/ SweepAIReturns
    \/ SweepPublishReturns

SpecPair == InitPair /\ [][NextPair]_vars

(***************************************************************************)
(* SpecSchema: one schedule on a table that may lack the columns added for *)
(* the approval flow, so that create goes through its second insert, in a  *)
(* deployment that may have no FRONTEND_URL.                               *)
(***************************************************************************)
InitSchema ==
    /\ store = <<>>
    /\ nextId = 1
    /\ now = 0
    /\ payments = [u \in Owners |-> {"linkedin_post"}]
    /\ connections = [u \in Owners |-> "ok"]
    /\ pc = "idle"
    /\ queue = <<>>
    /\ cur = NoRow
    /\ sweepDue = {}
    /\ publishedOk = {}
    /\ missing \in SUBSET OptionalColumns
    /\ frontendUrl \in BOOLEAN

CreateSchema == CreateWith(OneRecord, PairTimingInputs, {FALSE}, {""}, ApprovalInputs)

NextSchema ==
    \/ Tick
    \/ CreateSchema
    \/ Update
    \/ Activate
    \/ Deactivate
    \/ Delete
    \/ Review
    \/ SweepQuery
    \/ SweepBegin
    \/ SweepAIReturns
    \/ SweepImageReturns
    \/ SweepPublishReturns

SpecSchema == InitSchema /\ [][NextSchema]_vars

(***************************************************************************)
(* SpecLive: schedules created for approval by a paid and connected owner, *)
(* reviewers who approve, collaborators that succeed, and nobody who       *)
(* deactivates, rejects or deletes.  The agent calls the sweep every       *)
(* period and every awaited call returns: weak fairness of the sweep's     *)
(* steps and of the clock.                                                 *)
(***************************************************************************)
CreateLive ==
    CreateWith(MaxPosts, PairTimingInputs, {FALSE}, {""}, {<<TRUE, <<>>>>, <<TRUE, TeamAB>>})

Approve ==
    \E review_token \in TokenInputs, reviewer_email \in ReviewerEmails :
        /\ store' = review_schedule(store, review_token, "approve", reviewer_email).db
        /\ UNCHANGED <<nextId, envVars, sweepVars>>

NextLive ==
    \/ Tick
    \/ CreateLive
    \/ Approve
    \/ SweepQuery
    \/ SweepBegin
    \/ SweepAI("ok")
    \/ SweepPublish("ok")

SpecLive ==
    /\ InitPair
    /\ [][NextLive]_vars
    /\ WF_vars(Tick)
    /\ WF_vars(SweepQuery)
    /\ WF_vars(SweepBegin)
    /\ WF_vars(SweepAI("ok"))
    /\ WF_vars(SweepPublish("ok"))

(***************************************************************************)
(* SpecGate: schedules created through the REST handler, which asks the    *)
(* payment service before it schedules, by owners whose payment rows are   *)
(* fixed from the start.                                                   *)
(***************************************************************************)
\* the services a verified payment row may name
GateServices == {"linkedin_post", "dashboard_access"}

\* PaymentService.check_user_payment_status(user_id, service).has_paid for a
\* service other than dashboard_access: a row for it or for dashboard_access
check_user_payment_status(user_id, service) ==
    payments[user_id] \cap {service, "dashboard_access"} # {}

\* the request body names no user
NoUser == ""

\* a second topic for the handler: nothing but spaces
BlankTopic == "   "

\* topics that str.strip() leaves empty
BlankTopics == {"", " ", "  ", BlankTopic}

ErrUnboundLocal ==
    "cannot access local variable '_get_user_id_from_token' where it is not associated with a value"

\* handle_create_schedule_frontend, user_id being the one of the request body.
\* Without it the handler reads _get_user_id_from_token, a name the import
\* further down the function makes local, and the except returns the
\* UnboundLocalError; then topic and timing are required, then the payment
\* check, then the image of the request, then the service call.
\* generated_image is the image_url of the user's latest generated_posts row
\* of the topic, NoImage when the look-up finds none or fails.
RequestImage(include_image, custom_text, image_url, generated_image) ==
    IF image_url # NoImage THEN image_url
    ELSE IF custom_text # "" /\ include_image THEN generated_image
    ELSE NoImage

handle_create_schedule_frontend(db, nid, t, user_id, topic, schedule, include_image, custom_text, image_url, generated_image, scheduled_at, require_approval, team_emails) ==
    IF user_id = NoUser
    THEN {[db |-> db, nid |-> nid, schedule_id |-> 0, res |-> Err(ErrUnboundLocal)]}
    ELSE IF topic \in BlankTopics
    THEN {[db |-> db, nid |-> nid, schedule_id |-> 0, res |-> Err("Topic is required")]}
    ELSE IF schedule = NoCron /\ scheduled_at = NoTime
    THEN {[db |-> db, nid |-> nid, schedule_id |-> 0,
           res |-> Err("Either schedule (cron expression) or scheduled_at (ISO datetime) is required")]}
    ELSE IF ~check_user_payment_status(user_id, "linkedin_post")
    THEN {[db |-> db, nid |-> nid, schedule_id |-> 0,
           res |-> Err("Payment required. Please pay 0.01 MNEE before scheduling.")]}
    ELSE create_scheduled_post(db, nid, t, user_id, topic, schedule, include_image, custom_text,
                               RequestImage(include_image, custom_text, image_url, generated_image),
                               scheduled_at, require_approval, team_emails)

InitGate ==
    /\ store = <<>>
    /\ nextId = 1
    /\ now = 0
    /\ payments \in [Owners -> SUBSET GateServices]
    /\ connections = [u \in Owners |-> "ok"]
    /\ pc = "idle"
    /\ queue = <<>>
    /\ cur = NoRow
    /\ sweepDue = {}
    /\ publishedOk = {}
    /\ missing = {}
    /\ frontendUrl = TRUE

CreateGate ==
    /\ nextId <= MaxPosts
    /\ \E user_id \in Owners \cup {NoUser}, topic \in {ShortTopic, BlankTopic},
         timing \in PairTimingInputs, approval \in PairApprovalInputs,
         include_image \in BOOLEAN, custom_text \in CustomTextInputs,
         image_url \in {NoImage, HttpImage}, generated_image \in {NoImage, HttpImage} :
          \E out \in handle_create_schedule_frontend(store, nextId, now, user_id, topic,
                         timing[1], include_image, custom_text, image_url, generated_image,
                         timing[2], approval[1], approval[2]) :
              /\ store' = out.db
              /\ nextId' = out.nid
              /\ UNCHANGED <<envVars, sweepVars>>

NextGate ==
    \/ Tick
    \/ CreateGate
    \/ ReviewPair
    \/ SweepQuery
    \/ SweepBegin
    \/ SweepAIReturns
    \/ SweepImageReturns
    \/ SweepPublishReturns

SpecGate == InitGate /\ [][NextGate]_vars

(***************************************************************************)
(* SpecCron: one recurring schedule of a paid and connected owner, with    *)
(* every well-formed rule, on a clock that runs across the end of an hour. *)
(***************************************************************************)
InitCron ==
    /\ store = <<>>
    /\ nextId = 1
    /\ now = CronStart
    /\ payments = [u \in Owners |-> {"linkedin_post"}]
    /\ connections = [u \in Owners |-> "ok"]
    /\ pc = "idle"
    /\ queue = <<>>
    /\ cur = NoRow
    /\ sweepDue = {}
    /\ publishedOk = {}
    /\ missing = {}
    /\ frontendUrl = TRUE

ValidCrons == {EveryMinute, EveryTwo, EverySeven}

TickCron ==
    /\ now < CronHorizon
    /\ now' = now + 1
    /\ UNCHANGED <<store, nextId, payments, connections, missing, frontendUrl, sweepVars>>

CreateCron ==
    CreateWith(OneRecord, {<<cron, NoTime>> : cron \in ValidCrons}, {FALSE}, {""},
               {<<FALSE, <<>>>>})

NextCron ==
    \/ TickCron
    \/ CreateCron
    \/ Activate
    \/ Deactivate
    \/ SweepQuery
    \/ SweepBegin
    \/ SweepAIReturns
    \/ SweepPublishReturns

SpecCron == InitCron /\ [][NextCron]_vars

(***************************************************************************)
(* Properties of the approval state machine.                               *)
(***************************************************************************)
\* C1: in every reachable state a record with non-empty team_emails
\* (required_reviewers) and status pending has every required reviewer in
\* approved_emails (approved_by), compared lower-cased and stripped.
C1_PendingHasAllApprovals ==
    \A i \in DOMAIN store :
        (store[i].team_emails # <<>> /\ store[i].status = "pending")
            => \A k \in 1..Len(store[i].team_emails) :
                  InList(LowerStrip(store[i].team_emails[k]),
                         LowerStripAll(store[i].approved_emails))

\* C2: a step that records an approval on a pending_approval record with
\* required reviewers, and leaves some required reviewer without an approval,
\* leaves the status pending_approval; the status is pending only once every
\* required reviewer has approved.
C2_PartialApprovalStaysPendingApproval ==
    [][\A i \in DOMAIN store :
          (/\ i \in DOMAIN store'
           /\ store[i].status = "pending_approval"
           /\ store[i].team_emails # <<>>
           /\ store'[i].approved_emails # store[i].approved_emails
           /\ \E k \in 1..Len(store'[i].team_emails) :
                 ~InList(LowerStrip(store'[i].team_emails[k]),
                         LowerStripAll(store'[i].approved_emails)))
              => store'[i].status = "pending_approval"]_vars

(***************************************************************************)
(* Properties of the sweep.                                                *)
(***************************************************************************)
\* C3: when the sweep takes up a selected record whose owner has no verified
\* payment for the posting service, that step writes status failed with the
\* payment error, does not call the Publisher (nor the AI), and drops the
\* record from the sweep's work list.
C3_UnpaidFailsWithoutPublisher ==
    [][(/\ pc = "begin"
        /\ queue' = Tail(queue)
        /\ payments[Head(queue).user_id] \cap {"linkedin_post", "linkedin_post_with_image"} = {})
          => /\ pc' \in {"idle", "begin"}
             /\ cur' = NoRow
             /\ publishedOk' = publishedOk
             /\ \A k \in 1..Len(queue') : queue'[k].id # Head(queue).id
             /\ Head(queue).id \in DOMAIN store
                   => /\ store'[Head(queue).id].status = "failed"
                      /\ store'[Head(queue).id].error_message = ErrPayment]_vars

\* a sweep has failed an unpaid owner's record and returned; nothing was published
C3_Witness ==
    /\ pc = "idle"
    /\ publishedOk = {}
    /\ \E i \in DOMAIN store :
          /\ store[i].status = "failed"
          /\ store[i].error_message = ErrPayment
          /\ payments[store[i].user_id] = {}

\* C4: when a sweep returns, no record it selected as pending and due is
\* still pending with the scheduled_at (run_at) it was selected with.
C4_SweepLeavesNoStaleDue ==
    [][(pc # "idle" /\ pc' = "idle")
          => \A d \in sweepDue :
                d[1] \in DOMAIN store'
                   => ~(/\ store'[d[1]].status = "pending"
                        /\ store'[d[1]].scheduled_at = d[2])]_vars

\* C5: when the Publisher returns success for a selected record that has a
\* cron_expression (recurrence_rule), the record is left pending with
\* scheduled_at (run_at) an occurrence of the rule strictly after now.
C5_RecurringSuccessRearms ==
    [][(/\ pc = "pub"
        /\ pc' # "pub"
        /\ cur.row.cron_expression # NoCron
        /\ cur.row.id \in DOMAIN store'
        /\ store'[cur.row.id].status # "failed")
          => /\ store'[cur.row.id].status = "pending"
             /\ store'[cur.row.id].scheduled_at > now
             /\ CronPeriod(cur.row.cron_expression) # 0
             /\ store'[cur.row.id].scheduled_at % CronPeriod(cur.row.cron_expression) = 0]_vars

\* C6: when the Publisher returns success for a selected record without
\* cron_expression the record becomes posted; and from then on, while it has
\* no cron_expression, it is posted or cancelled, is not selected by the due
\* query, is not in a sweep's work list and no AI or Publisher call is made
\* for it.
C6_OneTimePostedIsFinal ==
    [][/\ (/\ pc = "pub"
           /\ pc' # "pub"
           /\ cur.row.cron_expression = NoCron
           /\ cur.row.id \in DOMAIN store'
           /\ cur.row.id \in publishedOk' \ publishedOk)
             => store'[cur.row.id].status = "posted"
       /\ \A i \in publishedOk' \cap DOMAIN store' :
             store'[i].cron_expression = NoCron
                => /\ store'[i].status \in {"posted", "cancelled"}
                   /\ i \notin DueQuery(store', now')
                   /\ \A k \in 1..Len(queue') : queue'[k].id # i
                   /\ ~(pc' \in {"ai", "img", "pub"} /\ cur'.row.id = i)]_vars

\* a one-time record was published, is posted, its time has passed and a
\* later sweep query has run without selecting it
C6_Witness ==
    \E i \in publishedOk \cap DOMAIN store :
        /\ store[i].cron_expression = NoCron
        /\ store[i].status = "posted"
        /\ store[i].scheduled_at < now
        /\ pc = "idle"

(***************************************************************************)
(* Properties of create.                                                   *)
(***************************************************************************)
\* C7: two create calls in a row with the same owner, content and
\* cron_expression, for any require_approval, return the same id on the
\* second call and leave exactly one record with that owner, content and rule.
C7_SecondCreateReturnsSameId ==
    \A user_id \in Owners, approval \in ApprovalInputs :
        \A out1 \in create_scheduled_post(store, nextId, now, user_id, ShortTopic, EveryTwo, FALSE,
                        "", NoImage, NoTime, approval[1], approval[2]) :
            \A out2 \in create_scheduled_post(out1.db, out1.nid, now, user_id, ShortTopic, EveryTwo,
                            FALSE, "", NoImage, NoTime, approval[1], approval[2]) :
                /\ out2.schedule_id = out1.schedule_id
                /\ Cardinality({i \in DOMAIN out2.db :
                                  /\ out2.db[i].user_id = user_id
                                  /\ out2.db[i].content = ShortTopic
                                  /\ out2.db[i].cron_expression = EveryTwo}) = 1

\* C7 as amended: with require_approval = false, and at most one pending
\* record with that owner, content and rule before the first call, the second
\* call returns the first call's id and inserts nothing, and exactly one
\* pending record with that owner, content and rule is in the store.
C7_SecondPlainCreateReturnsSameId ==
    \A user_id \in Owners, timing \in TimingInputs, custom_text \in CustomTextInputs :
        LET content == IF custom_text = "" THEN ShortTopic ELSE custom_text
            Matching(db) == {i \in DOMAIN db : /\ db[i].user_id = user_id
                                               /\ db[i].content = content
                                               /\ db[i].cron_expression = timing[1]
                                               /\ db[i].status = "pending"}
        IN  (timing[1] # NoCron /\ Cardinality(Matching(store)) <= 1)
               => \A out1 \in create_scheduled_post(store, nextId, now, user_id, ShortTopic,
                                  timing[1], FALSE, custom_text, NoImage, timing[2], FALSE, <<>>) :
                      out1.res.error = NoError
                         => \A out2 \in create_scheduled_post(out1.db, out1.nid, now, user_id,
                                            ShortTopic, timing[1], FALSE, custom_text, NoImage,
                                            timing[2], FALSE, <<>>) :
                                /\ out2.res.error = NoError
                                /\ out2.schedule_id = out1.schedule_id
                                /\ out2.db = out1.db
                                /\ Matching(out2.db) = {out1.schedule_id}

\* a recurring record was created without approval, and the same request
\* again is answered with its id
C7_Witness ==
    /\ nextId = 2
    /\ 1 \in DOMAIN store
    /\ store[1].cron_expression = EveryTwo
    /\ store[1].status = "pending"
    /\ store[1].review_token = NoToken
    /\ \A out \in create_scheduled_post(store, nextId, now, store[1].user_id, store[1].content,
                      EveryTwo, FALSE, "", NoImage, NoTime, FALSE, <<>>) :
          out.schedule_id = 1 /\ out.db = store

\* C8: two create calls in a row for a one-time schedule (scheduled_at given,
\* no cron_expression) with the same owner, content and time both insert: the
\* two ids are new and distinct, and neither call is answered with a record
\* that was already there.
C8_OneTimeCreatesAreDistinct ==
    \A user_id \in Owners, scheduled_at \in {0, MaxTime}, approval \in ApprovalInputs,
       custom_text \in CustomTextInputs :
        \A out1 \in create_scheduled_post(store, nextId, now, user_id, ShortTopic, NoCron, FALSE,
                        custom_text, NoImage, scheduled_at, approval[1], approval[2]) :
            \A out2 \in create_scheduled_post(out1.db, out1.nid, now, user_id, ShortTopic, NoCron,
                            FALSE, custom_text, NoImage, scheduled_at, approval[1], approval[2]) :
                /\ out1.res.error = NoError
                /\ out2.res.error = NoError
                /\ out1.schedule_id \notin DOMAIN store
                /\ out2.schedule_id \notin DOMAIN out1.db
                /\ out1.schedule_id # out2.schedule_id
                /\ DOMAIN out2.db = DOMAIN store \cup {out1.schedule_id, out2.schedule_id}
                /\ out2.db[out1.schedule_id] = out1.db[out1.schedule_id]

\* two one-time records with the same owner, content and time are in the store
C8_Witness ==
    \E i, j \in DOMAIN store :
        /\ i # j
        /\ store[i].cron_expression = NoCron
        /\ store[j].cron_expression = NoCron
        /\ store[i].status = "pending"
        /\ store[j].status = "pending"
        /\ store[i].user_id = store[j].user_id
        /\ store[i].content = store[j].content
        /\ store[i].scheduled_at = store[j].scheduled_at

(***************************************************************************)
(* Properties of review_schedule.                                          *)
(***************************************************************************)
\* C9: approving again with an e-mail whose lower().strip() form is already
\* in approved_emails (approved_by) leaves approved_emails as it was, and two
\* approvals in a row by the same reviewer, however typed, leave the list and
\* the reported approvals_count as the first approval left them.
C9_ReapproveIsIdempotent ==
    \A i \in DOMAIN store :
        LET token == IF store[i].review_token # NoToken THEN store[i].review_token ELSE i
            typed == {EmailAUpper, <<"a">>, EmailB, <<" ", "B">>}
        IN  /\ \A e \in typed :
                  (/\ store[i].status \in {"pending_approval", "pending"}
                   /\ InList(LowerStrip(e), LowerStripAll(store[i].approved_emails)))
                     => review_schedule(store, token, "approve", e).db[i].approved_emails
                           = store[i].approved_emails
            /\ \A e1, e2 \in typed :
                  LET r1 == review_schedule(store, token, "approve", e1)
                      r2 == review_schedule(r1.db, token, "approve", e2)
                  IN  (LowerStrip(e1) = LowerStrip(e2) /\ r1.res.error = NoError)
                         => /\ r2.res.error = NoError
                            /\ r2.db[i].approved_emails = r1.db[i].approved_emails
                            /\ Len(r2.db[i].approved_emails) <= Len(store[i].approved_emails) + 1
                            /\ "approvals_count" \in DOMAIN r1.res
                                  => /\ "approvals_count" \in DOMAIN r2.res
                                     /\ r2.res.approvals_count = r1.res.approvals_count

\* one of two required reviewers has approved, and approves again with the
\* address typed differently
C9_Witness ==
    \E i \in DOMAIN store :
        /\ store[i].team_emails = TeamAB
        /\ store[i].approved_emails = <<EmailAUpper>>
        /\ store[i].review_token # NoToken
        /\ LET r == review_schedule(store, store[i].review_token, "approve", <<"a">>)
           IN  /\ r.res.error = NoError
               /\ r.res.approvals_count = 1
               /\ r.db[i].approved_emails = <<EmailAUpper>>

\* C10: after a reject through its token a record refuses every later
\* approve with that token: from a pending_approval record, reject, then
\* nothing or one call of its owner (activate or deactivate), then approve
\* with the same token returns an error on the approve and leaves the status
\* rejected.
C10_ApproveAfterRejectFails ==
    \A i \in DOMAIN store :
        LET token == IF store[i].review_token # NoToken THEN store[i].review_token ELSE i
            owner == store[i].user_id
        IN  store[i].status = "pending_approval"
               => \A e1, e2 \in ReviewerEmails :
                     LET r1 == review_schedule(store, token, "reject", e1)
                     IN  /\ r1.res.error = NoError
                         /\ r1.db[i].status = "rejected"
                         /\ \A later \in {r1.db, activate_schedule(r1.db, now, owner, i).db,
                                           deactivate_schedule(r1.db, owner, i).db} :
                                LET r2 == review_schedule(later, token, "approve", e2)
                                IN  /\ r2.res.error # NoError
                                    /\ r2.db[i].status = "rejected"

(***************************************************************************)
(* Terminal statuses.                                                      *)
(***************************************************************************)
\* C11: once a record's status is rejected, no step that keeps the record
\* (anything but delete) changes its status.
C11_RejectedIsTerminal ==
    [][\A i \in DOMAIN store :
          (store[i].status = "rejected" /\ i \in DOMAIN store')
             => store'[i].status = "rejected"]_vars

\* C12: a create with require_approval and no team_emails inserts a record
\* with status pending_approval and a review token, and one approve through
\* that token with no reviewer e-mail moves it to pending.
C12_OpenModeApproval ==
    /\ \A user_id \in Owners, timing \in TimingInputs, include_image \in BOOLEAN,
          custom_text \in CustomTextInputs :
           \A out \in create_scheduled_post(store, nextId, now, user_id, ShortTopic, timing[1],
                          include_image, custom_text, NoImage, timing[2], TRUE, <<>>) :
               (out.res.error = NoError /\ out.schedule_id \notin DOMAIN store)
                  => LET created == out.db[out.schedule_id]
                         r == review_schedule(out.db, created.review_token, "approve", NoEmail)
                     IN  /\ created.status = "pending_approval"
                         /\ created.review_token # NoToken
                         /\ created.team_emails = <<>>
                         /\ r.res.error = NoError
                         /\ r.db[out.schedule_id].status = "pending"
    /\ \A i \in DOMAIN store :
           (/\ store[i].status = "pending_approval"
            /\ store[i].team_emails = <<>>
            /\ store[i].review_token # NoToken)
              => review_schedule(store, store[i].review_token, "approve", NoEmail).db[i].status
                    = "pending"

\* a record created for approval without reviewers has been approved once,
\* with no e-mail, and is pending
C12_Witness ==
    \E i \in DOMAIN store :
        /\ store[i].review_token # NoToken
        /\ store[i].team_emails = <<>>
        /\ store[i].approved_emails = <<>>
        /\ store[i].cron_expression = NoCron
        /\ store[i].status = "pending"

(***************************************************************************)
(* Validation in create.                                                   *)
(***************************************************************************)
\* C13: a create request that gives neither schedule (recurrence_rule) nor
\* scheduled_at (run_at), and one that gives both, is answered with an error
\* and inserts nothing.
C13_ExactlyOneTimingAccepted ==
    \A user_id \in Owners, timing \in TimingInputs, approval \in ApprovalInputs :
        ((timing[1] = NoCron) = (timing[2] = NoTime))
           => \A out \in create_scheduled_post(store, nextId, now, user_id, ShortTopic, timing[1],
                             FALSE, "", NoImage, timing[2], approval[1], approval[2]) :
                  out.res.error # NoError /\ out.db = store

\* C14: a create request with a malformed rule and no scheduled_at is
\* answered with the validation error (a returned dict, nothing raised), and
\* the store and the id generator are as before.
C14_MalformedRuleRejected ==
    /\ get_next_utc(BadCron, now) = NoTime
    /\ \A user_id \in Owners, approval \in ApprovalInputs, include_image \in BOOLEAN,
          custom_text \in CustomTextInputs :
           \A out \in create_scheduled_post(store, nextId, now, user_id, ShortTopic, BadCron,
                          include_image, custom_text, NoImage, NoTime, approval[1], approval[2]) :
               /\ out.res.error = "Invalid cron expression format"
               /\ out.db = store
               /\ out.nid = nextId

\* the store holds a record, and a create with a malformed rule is refused
\* there and leaves that record alone
C14_Witness ==
    /\ store # <<>>
    /\ \A out \in create_scheduled_post(store, nextId, now, "u1", ShortTopic, BadCron, FALSE, "",
                      NoImage, NoTime, FALSE, <<>>) :
          out.res.error # NoError /\ out.db = store

(***************************************************************************)
(* The recurrence calculator.                                              *)
(***************************************************************************)
\* C15: for every well-formed rule and every instant, get_next_utc returns an
\* instant strictly after it that is an occurrence of the rule; and every
\* scheduled_at written for a recurring record (by create with a rule, by
\* activate, by the re-arming write of the sweep) is strictly after the time
\* of the write and an occurrence of the record's rule.
C15_NextOccurrenceIsLater ==
    [][/\ \A cron \in ValidCrons, t \in {now, now'} :
             /\ get_next_utc(cron, t) > t
             /\ CronMatches(cron, get_next_utc(cron, t))
       /\ \A i \in DOMAIN store' :
             (i \notin DOMAIN store \/ store'[i].scheduled_at # store[i].scheduled_at)
                => /\ store'[i].scheduled_at > now
                   /\ CronMatches(store'[i].cron_expression, store'[i].scheduled_at)]_vars

\* a record of the every-seventh-minute rule was re-armed after a post made
\* in the last minutes of an hour: its next run is minute 0 of the next hour
C15_Witness ==
    \E i \in publishedOk \cap DOMAIN store :
        /\ store[i].cron_expression = EverySeven
        /\ store[i].status = "pending"
        /\ store[i].scheduled_at = MinutesPerHour
        /\ now >= 56
        /\ now < MinutesPerHour

(***************************************************************************)
(* The sweep over several records.                                         *)
(***************************************************************************)
\* C16: when a collaborator call made for a selected record raises, the step
\* marks that record failed with the exception as error_message, changes no
\* other record, keeps the rest of the selected records to be processed and
\* goes on with the next of them (the sweep returns only when none is left);
\* and wherever the loop stands at a record, a record is there to process.
C16_ExceptionFailsOnlyThatRecord ==
    [][/\ (SweepAI("raise") \/ SweepImage("raise") \/ SweepPublish("raise"))
             => /\ cur.row.id \in DOMAIN store
                      => /\ store'[cur.row.id].status = "failed"
                         /\ store'[cur.row.id].error_message = ErrException
                /\ DOMAIN store' = DOMAIN store
                /\ \A i \in DOMAIN store : i # cur.row.id => store'[i] = store[i]
                /\ queue' = queue
                /\ pc' = IF queue = <<>> THEN "idle" ELSE "begin"
                /\ publishedOk' = publishedOk
       /\ pc' = "begin" => queue' # <<>>
       /\ pc' \in {"idle", "begin", "ai", "img", "pub"}]_vars

\* a record of the running sweep failed on an exception, and the sweep is
\* publishing another record it selected with it
C16_Witness ==
    /\ pc = "pub"
    /\ \E i \in DOMAIN store :
          /\ i # cur.row.id
          /\ store[i].status = "failed"
          /\ store[i].error_message = ErrException
          /\ \E d \in sweepDue : d[1] = i
          /\ \E d \in sweepDue : d[1] = cur.row.id

\* C17: the query of a sweep selects exactly the records that are pending with
\* scheduled_at <= now, and queues those and no others; while the sweep runs,
\* a step of it changes or removes no record outside that selection, and only
\* a selected record reaches the text, image and Publisher calls.
C17_SweepTouchesOnlyDue ==
    [][/\ (pc = "idle" /\ sweepVars' # sweepVars)
             => /\ {d[1] : d \in sweepDue'}
                      = {i \in DOMAIN store :
                            store[i].status = "pending" /\ store[i].scheduled_at <= now}
                /\ {queue'[k].id : k \in 1..Len(queue')} = {d[1] : d \in sweepDue'}
                /\ store' = store
       /\ (pc # "idle" /\ sweepVars' # sweepVars)
             => /\ \A i \in DOMAIN store :
                      i \notin {d[1] : d \in sweepDue}
                         => i \in DOMAIN store' /\ store'[i] = store[i]
                /\ pc' \in {"ai", "img", "pub"}
                      => cur'.row.id \in {d[1] : d \in sweepDue}
                /\ publishedOk' \subseteq publishedOk \cup {d[1] : d \in sweepDue}]_vars

\* the sweep is publishing a selected record while the store holds an older
\* record that its query passed over
C17_Witness ==
    /\ pc = "pub"
    /\ \E i \in DOMAIN store :
          /\ i < cur.row.id
          /\ i \notin {d[1] : d \in sweepDue}
          /\ \/ store[i].status \in {"pending_approval", "rejected", "cancelled",
                                      "failed", "posted"}
             \/ store[i].scheduled_at > now

(***************************************************************************)
(* Ownership and the review surface.                                       *)
(***************************************************************************)
\* C18: for every stored record and every user who is not its owner, update
\* (with any request), activate, deactivate and delete called by that user
\* return "Schedule not found" and leave the whole table as it was.
C18_ForeignOwnerChangesNothing ==
    \A i \in DOMAIN store, u \in Users :
        u # store[i].user_id
            => /\ activate_schedule(store, now, u, i) = [db |-> store, res |-> Err("Schedule not found")]
               /\ deactivate_schedule(store, u, i) = [db |-> store, res |-> Err("Schedule not found")]
               /\ delete_schedule(store, u, i) = [db |-> store, res |-> Err("Schedule not found")]
               /\ \A req \in UpdateRequests :
                     update_schedule(store, now, u, i, req[1], req[2], req[3], req[4], req[5])
                         = [db |-> store, res |-> Err("Schedule not found")]

\* a pending recurring record of u1 is refused to u2 while the same calls by
\* u1 go through
C18_Witness ==
    \E i \in DOMAIN store :
        /\ store[i].user_id = "u1"
        /\ store[i].status = "pending"
        /\ store[i].cron_expression = EveryTwo
        /\ deactivate_schedule(store, "u2", i).res.error = "Schedule not found"
        /\ deactivate_schedule(store, "u1", i).res.error = NoError
        /\ delete_schedule(store, "u1", i).db # store
        /\ activate_schedule(store, now, "u1", i).res.error = NoError

\* C19: submit_review changes a record only when the supplied token equals the
\* record's non-empty review_token: for every stored record, every supplied
\* token that is not that record's review_token (and every token at all when
\* the record has none), every action and every reviewer e-mail, the record
\* is the same after review_schedule as before.
C19_ReviewOnlyThroughToken ==
    \A i \in DOMAIN store, review_token \in TokenInputs, action \in {"approve", "reject"},
       reviewer_email \in ReviewerEmails :
        (store[i].review_token = NoToken \/ review_token # store[i].review_token)
            => review_schedule(store, review_token, action, reviewer_email).db[i] = store[i]

\* C20: verify_reviewer(token, email) answers verified = TRUE exactly when some
\* record carries the supplied token as its non-empty review_token and that
\* record either has no team_emails or lists the e-mail up to letter case and
\* surrounding blanks; for every other e-mail, and for a value that is no
\* record's review_token, it answers verified = FALSE.
C20_VerifiedIffTokenAndMember ==
    \A review_token \in TokenInputs, email \in VerifyEmails :
        verify_review_email(store, review_token, email).verified
            = \E i \in DOMAIN store :
                 /\ store[i].review_token # NoToken
                 /\ store[i].review_token = review_token
                 /\ \/ store[i].team_emails = <<>>
                    \/ InList(LowerStrip(email), LowerStripAll(store[i].team_emails))

\* C21: for a record that has team_emails, fetch_for_review called with no
\* e-mail, or with an e-mail that is on the team under no spelling, answers
\* with the verification-required flag and without the record's content,
\* image, scheduled time or status.
C21_NoContentBeforeVerification ==
    \A review_token \in TokenInputs, email \in ReviewerEmails \cup {EmailOutsider} :
        \A i \in ReviewLookup(store, review_token) :
            (/\ store[i].team_emails # <<>>
             /\ \/ email = NoEmail
                \/ \A k \in 1..Len(store[i].team_emails) :
                      LowerStrip(store[i].team_emails[k]) # LowerStrip(email))
                => LET res == get_schedule_for_review(store, review_token, email)
                   IN  /\ DOMAIN res \cap {"topic", "content", "image_url", "scheduled_at", "status"} = {}
                       /\ res.requires_email_verification = TRUE
                       /\ res.error # NoError

\* a record with a team: the page is refused to an outsider and to a caller
\* giving no e-mail, and shown to a team member
C21_Witness ==
    \E i \in DOMAIN store :
        /\ store[i].team_emails = TeamAB
        /\ "content" \notin DOMAIN get_schedule_for_review(store, Tok(i), EmailOutsider)
        /\ "content" \notin DOMAIN get_schedule_for_review(store, Tok(i), NoEmail)
        /\ get_schedule_for_review(store, Tok(i), EmailAUpper).content = store[i].content

\* C22: for every reviewable record that has team_emails, review_schedule
\* (approve) with a reviewer e-mail that is on the team under no spelling
\* returns an error and leaves the record's approved_emails and status as
\* they were.
C22_OutsiderApprovalRefused ==
    \A i \in DOMAIN store :
        (/\ store[i].team_emails # <<>>
         /\ store[i].review_token # NoToken
         /\ store[i].status \in {"pending_approval", "pending"}
         /\ \A k \in 1..Len(store[i].team_emails) :
               LowerStrip(store[i].team_emails[k]) # LowerStrip(EmailOutsider))
            => LET out == review_schedule(store, store[i].review_token, "approve", EmailOutsider)
               IN  /\ out.res.error # NoError
                   /\ out.db[i].approved_emails = store[i].approved_emails
                   /\ out.db[i].status = store[i].status

(***************************************************************************)
(* The owner's deactivate and activate.                                    *)
(***************************************************************************)
\* C23: deactivate by the owner succeeds and leaves the record as it was
\* except for status = cancelled; a second deactivate on the result succeeds
\* too and changes nothing.
C23_DeactivateIsIdempotent ==
    \A i \in DOMAIN store :
        LET first == deactivate_schedule(store, store[i].user_id, i)
            second == deactivate_schedule(first.db, store[i].user_id, i)
        IN  /\ first.res = Ok("Schedule deactivated successfully")
            /\ first.db = [store EXCEPT ![i].status = "cancelled"]
            /\ second.res = Ok("Schedule deactivated successfully")
            /\ second.db = first.db

\* a record already cancelled, on which deactivate succeeds again
C23_Witness ==
    \E i \in DOMAIN store :
        /\ store[i].status = "cancelled"
        /\ deactivate_schedule(store, store[i].user_id, i)
              = [db |-> store, res |-> Ok("Schedule deactivated successfully")]

\* C24: activate by the owner on a record that has a cron_expression sets its
\* status to pending and its scheduled_at to the next occurrence after the
\* current time, and changes nothing else; on a record without a
\* cron_expression it returns an error and changes nothing.
C24_ActivateRearmsOrRefuses ==
    \A i \in DOMAIN store :
        LET out == activate_schedule(store, now, store[i].user_id, i)
        IN  IF store[i].cron_expression # NoCron
            THEN /\ out.res.error = NoError
                 /\ out.db = [store EXCEPT ![i].status = "pending",
                                           ![i].scheduled_at = get_next_utc(store[i].cron_expression, now)]
                 /\ out.db[i].scheduled_at > now
            ELSE /\ out.res.error # NoError
                 /\ out.db = store

\* C25: a failed record stays failed under every step of the sweep and every
\* review call, and is never taken up by the sweep; its status changes only by
\* the owner's deactivate (to cancelled) or by the owner's activate (to
\* pending), and activate does that only for a record with a cron_expression.
C25_FailedDoesNotSelfHeal ==
    [][\A i \in DOMAIN store \cap DOMAIN store' :
          store[i].status = "failed"
              => /\ sweepVars' # sweepVars => store'[i] = store[i]
                 /\ (pc' \in {"ai", "img", "pub"} /\ cur' # cur) => cur'.row.id # i
                 /\ \A review_token \in TokenInputs, action \in {"approve", "reject"},
                       reviewer_email \in ReviewerEmails :
                        review_schedule(store, review_token, action, reviewer_email).db[i] = store[i]
                 /\ store'[i].status \in {"failed", "pending", "cancelled"}
                 /\ store'[i].status = "cancelled"
                       => store' = deactivate_schedule(store, store[i].user_id, i).db
                 /\ store'[i].status = "pending"
                       => /\ store[i].cron_expression # NoCron
                          /\ store' = activate_schedule(store, now, store[i].user_id, i).db]_vars

\* a failed one-time record whose time has come: the sweep's query passes it
\* over and activate refuses it
C25_Witness ==
    \E i \in DOMAIN store :
        /\ store[i].status = "failed"
        /\ store[i].cron_expression = NoCron
        /\ store[i].scheduled_at <= now
        /\ pc = "idle"
        /\ i \notin DueQuery(store, now)
        /\ activate_schedule(store, now, store[i].user_id, i).res.error # NoError

(***************************************************************************)
(* Approvals of several reviewers.  review_schedule has no await between   *)
(* its select and its update, so the event loop runs each call to its end  *)
(* before it starts another: two calls made at the same time take effect   *)
(* as one of the two orders.                                               *)
(***************************************************************************)
\* C26: when two different team members approve the same reviewable record,
\* in either order, both calls succeed and both e-mails are in
\* approved_emails afterwards, next to everything that was listed before.
C26_BothApprovalsKept ==
    \A i \in DOMAIN store, first \in {EmailAUpper, EmailB}, second \in {EmailAUpper, EmailB} :
        (/\ first # second
         /\ store[i].team_emails = TeamAB
         /\ store[i].status \in {"pending_approval", "pending"})
            => LET one == review_schedule(store, store[i].review_token, "approve", first)
                   two == review_schedule(one.db, store[i].review_token, "approve", second)
                   listed == LowerStripAll(two.db[i].approved_emails)
               IN  /\ one.res.error = NoError
                   /\ two.res.error = NoError
                   /\ InList(LowerStrip(first), listed)
                   /\ InList(LowerStrip(second), listed)
                   /\ \A k \in 1..Len(store[i].approved_emails) :
                         InList(store[i].approved_emails[k], two.db[i].approved_emails)

\* both team members have approved the record, one call after the other
C26_Witness ==
    \E i \in DOMAIN store :
        /\ store[i].team_emails = TeamAB
        /\ Len(store[i].approved_emails) = 2
        /\ InList(EmailAUpper, store[i].approved_emails)
        /\ InList(EmailB, store[i].approved_emails)

(***************************************************************************)
(* Invariants of the record.                                               *)
(***************************************************************************)
\* C27: in every reachable state a record with a non-empty error_message has
\* status failed.
C27_ErrorOnlyOnFailed ==
    \A i \in DOMAIN store : store[i].error_message # NoError => store[i].status = "failed"

\* C28: in every reachable state, on every table layout, a record with status
\* pending_approval has a review_token.
C28_PendingApprovalHasToken ==
    \A i \in DOMAIN store : store[i].status = "pending_approval" => store[i].review_token # NoToken

\* a record created with approval on a table without the review_token column:
\* the second insert stored it as pending, without token
C28_Witness ==
    /\ "review_token" \in missing
    /\ \E i \in DOMAIN store :
          /\ store[i].review_token = NoToken
          /\ store[i].status = "pending"
          /\ store[i].scheduled_at > now
          /\ store[i].cron_expression = NoCron

\* C29: every step leaves in a record's approved_emails every e-mail that was
\* there before, in the same order (the list only grows at its end).
C29_ApprovalsOnlyGrow ==
    [][\A i \in DOMAIN store \cap DOMAIN store' :
          /\ Len(store'[i].approved_emails) >= Len(store[i].approved_emails)
          /\ SubSeq(store'[i].approved_emails, 1, Len(store[i].approved_emails))
                = store[i].approved_emails]_vars

\* a record that kept its approvals through operations that came after them
C29_Witness ==
    \E i \in DOMAIN store :
        /\ Len(store[i].approved_emails) = 2
        /\ store[i].status \in {"cancelled", "failed", "posted"}

(***************************************************************************)
(* Order of the steps the sweep takes for one record.                      *)
(***************************************************************************)
\* C30: a record enters the text, image or Publisher step only from the
\* payment step with its owner's payment check passing at that moment, and
\* stays in them as the same record; the Publisher is called from the payment, text or
\* image step of that record; and the finalizing write (posted, re-armed
\* pending, or failed from the publish) is made by the step in which the
\* Publisher call for that record returns, while the earlier steps write at
\* most a failure of their own.
C30_PaymentThenPublishThenFinalize ==
    [][/\ pc' \in {"ai", "img", "pub"}
             => \/ /\ pc = "begin"
                   /\ cur'.row.id = Head(queue).id
                   /\ payments[Head(queue).user_id]
                          \cap {"linkedin_post", "linkedin_post_with_image"} # {}
                \/ /\ pc \in {"ai", "img", "pub"}
                   /\ cur'.row.id = cur.row.id
       /\ (pc' = "pub" /\ pc # "pub")
             => /\ pc \in {"begin", "ai", "img"}
                /\ cur'.row.id = IF pc = "begin" THEN Head(queue).id ELSE cur.row.id
                /\ store' = store
       /\ publishedOk' # publishedOk
             => /\ pc = "pub"
                /\ publishedOk' = publishedOk \cup {cur.row.id}
       /\ sweepVars' # sweepVars
             => \A i \in DOMAIN store :
                   store'[i] # store[i]
                      => IF pc = "pub"
                         THEN i = cur.row.id
                         ELSE /\ store'[i].status = "failed"
                              /\ store'[i].error_message \notin {NoError, ErrPublish}]_vars

\* the whole pipeline has run for a record of a paying owner: published and
\* finalized as posted, the sweep back at rest
C30_Witness ==
    /\ pc = "idle"
    /\ \E i \in publishedOk \cap DOMAIN store :
          /\ store[i].status = "posted"
          /\ "linkedin_post" \in payments[store[i].user_id]

(***************************************************************************)
(* What update may write, and the owner of a record.                       *)
(***************************************************************************)
\* C31: update by the owner, with any request, leaves every other record as
\* it was and leaves the record's user_id, status, review_token, team_emails,
\* approved_emails and error_message as they were; it changes content only
\* when content is given, cron_expression only when a rule is given,
\* scheduled_at only when a time or a rule is given, and image_url only when
\* include_image is given.  And no operation changes the user_id of a record:
\* not activate, deactivate, delete or review with any input, and not the
\* writes of the sweep.
C31_UpdateFrame ==
    \A i \in DOMAIN store :
        /\ \A req \in UpdateRequests :
              LET out == update_schedule(store, now, store[i].user_id, i,
                                         req[1], req[2], req[3], req[4], req[5]).db
              IN  /\ DOMAIN out = DOMAIN store
                  /\ \A j \in DOMAIN store : j # i => out[j] = store[j]
                  /\ \A f \in {"user_id", "status", "review_token", "team_emails",
                               "approved_emails", "error_message"} : out[i][f] = store[i][f]
                  /\ req[1] = "" => out[i].content = store[i].content
                  /\ req[2] = NoCron => out[i].cron_expression = store[i].cron_expression
                  /\ (req[2] = NoCron /\ req[3] = NoTime)
                         => out[i].scheduled_at = store[i].scheduled_at
                  /\ req[4] = "unset" => out[i].image_url = store[i].image_url
        /\ \A u \in Users :
              /\ activate_schedule(store, now, u, i).db[i].user_id = store[i].user_id
              /\ deactivate_schedule(store, u, i).db[i].user_id = store[i].user_id
              /\ \A j \in DOMAIN delete_schedule(store, u, i).db :
                    delete_schedule(store, u, i).db[j].user_id = store[j].user_id
        /\ \A review_token \in TokenInputs, action \in {"approve", "reject"},
              reviewer_email \in ReviewerEmails :
                review_schedule(store, review_token, action, reviewer_email).db[i].user_id
                    = store[i].user_id
        /\ UpdateById(store, i, FinalizeData(store[i].cron_expression, now))[i].user_id
              = store[i].user_id
        /\ UpdateById(store, i, [status |-> "failed", error_message |-> ErrException])[i].user_id
              = store[i].user_id

\* a record waiting for its second approval, which an update giving content,
\* rule and image rewrites in exactly those columns
C31_Witness ==
    \E i \in DOMAIN store :
        /\ store[i].status = "pending"
        /\ store[i].team_emails = TeamAB
        /\ Len(store[i].approved_emails) = 1
        /\ store[i].content = LongText
        /\ LET out == update_schedule(store, now, store[i].user_id, i,
                                      ShortTopic, EveryTwo, NoTime, "yes", NoImage)
           IN  /\ out.res.error = NoError
               /\ out.db[i].content = ShortTopic
               /\ out.db[i].image_url = GENERATE_ON_EXECUTION
               /\ out.db[i].status = "pending"
               /\ out.db[i].approved_emails = store[i].approved_emails

\* C32: approval_status asked by the owner of a stored record answers without
\* error, with that record's approved_emails, team_emails and status.
C32_ApprovalStatusProjection ==
    \A i \in DOMAIN store :
        LET res == handle_get_approval_status(store, store[i].user_id, i)
        IN  /\ res.error = NoError
            /\ {"approved_by", "required_reviewers", "status"} \subseteq DOMAIN res
            /\ res.approved_by = store[i].approved_emails
            /\ res.required_reviewers = store[i].team_emails
            /\ res.status = store[i].status

(***************************************************************************)
(* The sweep: text generation, repeated processing, progress.              *)
(***************************************************************************)
\* C33: when the text generation for a selected record returns an error, that
\* step marks the record failed with the generation error as error_message,
\* changes no other record, makes no Publisher call for the record, and goes
\* on to the next selected record (or returns when none is left).
C33_GenerationErrorFailsRecord ==
    [][SweepAI("error")
          => /\ cur.row.id \in DOMAIN store
                   => /\ store'[cur.row.id].status = "failed"
                      /\ store'[cur.row.id].error_message = ErrGeneration
             /\ DOMAIN store' = DOMAIN store
             /\ \A i \in DOMAIN store : i # cur.row.id => store'[i] = store[i]
             /\ pc' \notin {"img", "pub"}
             /\ pc' = IF queue = <<>> THEN "idle" ELSE "begin"
             /\ queue' = queue
             /\ cur' = NoRow
             /\ publishedOk' = publishedOk]_vars

\* a record failed on text generation, never published, while the sweep that
\* selected it is publishing the next record
C33_Witness ==
    /\ pc = "pub"
    /\ \E i \in DOMAIN store :
          /\ i # cur.row.id
          /\ store[i].status = "failed"
          /\ store[i].error_message = ErrGeneration
          /\ i \notin publishedOk
          /\ \E d \in sweepDue : d[1] = i

\* C34: with one sweep running at a time, a sweep holds each selected record
\* once (the records still queued are distinct and differ from the one being
\* processed); a sweep selects a record only when its scheduled_at has been
\* reached; and the step that records a successful Publisher call leaves the
\* record either posted or pending with a scheduled_at later than the current
\* time, so that no later query selects it before that time.
C34_NoDoubleProcessing ==
    [][/\ \A a, b \in 1..Len(queue') : a # b => queue'[a].id # queue'[b].id
       /\ pc' \in {"ai", "img", "pub"} => \A a \in 1..Len(queue') : queue'[a].id # cur'.row.id
       /\ (pc = "idle" /\ sweepVars' # sweepVars)
             => \A d \in sweepDue' :
                   /\ d[2] = store[d[1]].scheduled_at
                   /\ d[2] <= now
       /\ publishedOk' # publishedOk
             => \A i \in (publishedOk' \ publishedOk) \cap DOMAIN store' :
                   /\ \/ store'[i].status = "posted"
                      \/ store'[i].status = "pending" /\ store'[i].scheduled_at > now
                   /\ i \notin DueQuery(store', now')]_vars

\* a recurring record published once is at the Publisher again, in a later
\* sweep, its re-armed scheduled_at reached
C34_Witness ==
    /\ pc = "pub"
    /\ cur.row.id \in publishedOk
    /\ cur.row.id \in DOMAIN store
    /\ store[cur.row.id].status = "pending"
    /\ store[cur.row.id].scheduled_at <= now
    /\ store[cur.row.id].scheduled_at > CronStart + 1

\* C35: under weak fairness of the sweep, with a paid and connected owner and
\* succeeding collaborators, and without deactivate, reject or delete, every
\* record that approval has made pending and whose scheduled_at has passed is
\* eventually published.
C35_ApprovedIsEventuallyPublished ==
    \A i \in Ids :
        (/\ i \in DOMAIN store
         /\ store[i].review_token # NoToken
         /\ store[i].status = "pending"
         /\ store[i].scheduled_at <= now)
            ~> (i \in publishedOk)

\* both records went through approval and were published; the one-time
\* record ended posted
C35_Witness ==
    /\ DOMAIN store = Ids
    /\ \A i \in Ids : store[i].review_token # NoToken /\ i \in publishedOk
    /\ \E i \in Ids : store[i].status = "posted" /\ store[i].team_emails = TeamAB
    /\ pc = "idle"

(***************************************************************************)
(* Owner and reviewer decisions against a sweep in progress.               *)
(***************************************************************************)
\* C36: a record that deactivate has cancelled, or a reviewer rejected, while
\* the sweep was waiting for the text, the image or the Publisher call of
\* that same record, keeps that status when the awaited call returns and the
\* sweep writes.
C36_SweepKeepsCancelledAndRejected ==
    [][\A i \in DOMAIN store \cap DOMAIN store' :
          (/\ store[i].status \in {"cancelled", "rejected"}
           /\ pc \in {"ai", "img", "pub"}
           /\ cur.row.id = i
           /\ sweepVars' # sweepVars)
              => store'[i].status = store[i].status]_vars

(***************************************************************************)
(* Errors of create, and the two payment checks.                           *)
(***************************************************************************)
\* C37: for every request, whenever create_scheduled_post returns an error the
\* table is as it was before the call.
C37_CreateErrorInsertsNothing ==
    \A user_id \in Owners, timing \in TimingInputs, approval \in ApprovalInputs :
        \A out \in create_scheduled_post(store, nextId, now, user_id, ShortTopic, timing[1],
                                         FALSE, "", NoImage, timing[2], approval[1], approval[2]) :
            out.res.error # NoError => out.db = store

\* C38: when every record was created through the handler's payment check
\* and the owners' payment rows never change, no record is failed by the
\* sweep for missing payment.
C38_NoPaymentFailureAfterPaidCreate ==
    \A i \in DOMAIN store :
        ~(store[i].status = "failed" /\ store[i].error_message = ErrPayment)

====
